---- MODULE Spec2Model ----
(***************************************************************************)
(* The CodeDeploy pre-traffic hook of the books API                        *)
(* (src/books/create-pre-traffic/index.ts) together with the create        *)
(* handler it invokes (src/books/create/index.ts) and the DynamoDB table   *)
(* both of them use.                                                       *)
(*                                                                         *)
(* One hook run is an async function: every action below is one           *)
(* continuation of it, from the completion of the call it awaits up to     *)
(* the next await.  The remote calls (Lambda invoke, getItem, deleteItem,  *)
(* putLifecycleEventHookExecutionStatus) may each resolve or reject.       *)
(***************************************************************************)
EXTENDS Integers, Sequences, FiniteSets, TLC

\* Number of hook runs CodeDeploy (or several deployments) may start.
MaxRuns == 2

Runs == 1..MaxRuns

VARIABLES
    store,      \* the DynamoDB table: isbn -> item, or NoItem
    pc,         \* pc[r]: the await the run r is suspended at
    status,     \* status[r]: the local variable `status` of handler
    event,      \* event[r]: the CodeDeploy event the run was invoked with
    lambda,     \* lambda[r]: the execution of the function invoked by run r
    calls,      \* calls[r]: the remote calls and timers of run r, in issue order
    Item,       \* Item[r]: the Item of the getItem output of run r
    reports,    \* reports[r]: the cdParams sent to CodeDeploy by run r
    outcome,    \* outcome[r]: how handler's promise settled
    concurrent, \* two runs have been active at the same time
    traffic,    \* traffic[r]: what CodeDeploy did with the deployment of run r
    response,   \* the last response of the create handler to a client
    listing,    \* the last response of the get-all handler
    waitArg,    \* the argument ms of a call of wait
    timer       \* the timer that call of wait set

\* the state outside the hook runs and the table
others == <<traffic, response, listing, waitArg, timer>>

\* the state of the hook runs
gate == <<pc, status, event, lambda, calls, Item, reports, outcome, concurrent>>

vars == <<store, gate, others>>

----------------------------------------------------------------------------
\* JavaScript values, with their type: strings and numbers.

Str(s) == [t |-> "string", v |-> s]

Num(n) == [t |-> "number", v |-> n]

undefined == [t |-> "undefined"]

null == [t |-> "null"]

\* Number.prototype.toString / String.prototype.toString
toString(x) == IF x.t = "number" THEN ToString(x.v) ELSE x.v

\* JSON text is kept as a tagged value: stringify wraps, parse unwraps.
JSONstringify(v) == [json |-> v]

JSONparse(s) == s.json

\* JSON.parse throws a SyntaxError on text that is no JSON
IsJSON(s) == "json" \in DOMAIN s

\* a text that is no JSON
NotJSON == [text |-> "{isbn:"]

----------------------------------------------------------------------------
\* The table.

NoItem == [none |-> TRUE]

\* The isbn of the smoke-test book.
ProbeIsbn == "1-111-111-111"

\* An isbn of a real book, written by real clients of POST /books.
OtherIsbn == "978-0-13-468599-1"

Isbns == {ProbeIsbn, OtherIsbn}

\* const book = {...} of the hook
book ==
    [isbn |-> Str(ProbeIsbn), title |-> Str("Smoke Test"), year |-> Str("1111"),
     author |-> Str("Test"), publisher |-> Str("Test"),
     rating |-> Num(1), pages |-> Num(111)]

\* a book a real client posts
clientBook ==
    [isbn |-> Str(OtherIsbn), title |-> Str("Effective Java"), year |-> Num(2018),
     author |-> Str("Bloch"), publisher |-> Str("Addison-Wesley"),
     rating |-> Num(5), pages |-> Num(412)]

\* the same isbn posted again with other values
clientBook2 ==
    [clientBook EXCEPT !.title = Str("Effective Java, 3rd edition"),
                       !.rating = Num(4)]

\* The requests clients send to POST /books: books, the hook's book, a book
\* without year, a book without title, the JSON null and a text that is no JSON.
ClientRequests ==
    {[body |-> JSONstringify(b)] :
        b \in {clientBook, clientBook2, book,
                [clientBook EXCEPT !.year = undefined],
                [clientBook EXCEPT !.title = undefined],
                null}}
        \cup {[body |-> NotJSON]}

\* params.Item of the create handler
PutItemInput(b) ==
    [isbn |-> [S |-> b.isbn.v], title |-> [S |-> b.title.v],
     year |-> [N |-> toString(b.year)], author |-> [S |-> b.author.v],
     publisher |-> [S |-> b.publisher.v], rating |-> [N |-> toString(b.rating)],
     pages |-> [N |-> toString(b.pages)]]

\* putItem that loses the write
putItem_Lost(tbl, item) == tbl

\* DynamoDB putItem: creates or overwrites the item under its primary key
putItem(tbl, item) == [tbl EXCEPT ![item.isbn.S] = item]

\* deleteItem that ignores its Key and empties the table
deleteItem_All(tbl, key) == [k \in DOMAIN tbl |-> NoItem]

\* deleteItem that resolves without deleting
deleteItem_Lost(tbl, key) == tbl

\* DynamoDB deleteItem
deleteItem(tbl, key) == [tbl EXCEPT ![key] = NoItem]

\* DynamoDB getItem with ConsistentRead: the Item, or none
getItem(tbl, key) == tbl[key]

\* the catch block of the create handler: statusCode 500, nothing written
Caught(tbl) == [threw |-> FALSE, statusCode |-> 500, put |-> FALSE, tbl |-> tbl]

\* year.toString(), rating.toString(), pages.toString() throw a TypeError on
\* undefined
ToStringThrows(b) == undefined \in {b.year, b.rating, b.pages}

\* putItem rejects an Item with an attribute value that is no string
\* (S: undefined leaves the attribute value empty)
ItemRejected(b) ==
    \E v \in {b.isbn, b.title, b.author, b.publisher} : v.t # "string"

\* the create handler with putItem not awaited: its rejection goes unnoticed
createHandler_NoAwait(tbl, ev, putOk) ==
    IF ~IsJSON(ev.body) THEN Caught(tbl)
    ELSE LET b == JSONparse(ev.body) IN
         IF b = null THEN Caught(tbl)
         ELSE IF ToStringThrows(b) THEN Caught(tbl)
         ELSE IF putOk /\ ~ItemRejected(b)
         THEN [threw |-> FALSE, statusCode |-> 201, put |-> TRUE,
               tbl |-> putItem(tbl, PutItemInput(b))]
         ELSE [threw |-> FALSE, statusCode |-> 201, put |-> FALSE, tbl |-> tbl]

\* The create handler: the response and the table after it, for a request
\* `ev` when the putItem call succeeds (putOk) or rejects.  Everything from
\* JSON.parse to putItem is inside the try block.
createHandler(tbl, ev, putOk) ==
    IF ~IsJSON(ev.body) THEN Caught(tbl)
    ELSE LET b == JSONparse(ev.body) IN
         IF b = null THEN Caught(tbl)
         ELSE IF ToStringThrows(b) THEN Caught(tbl)
         ELSE IF ItemRejected(b) THEN Caught(tbl)
         ELSE IF putOk
         THEN [threw |-> FALSE, statusCode |-> 201, put |-> TRUE,
               tbl |-> putItem(tbl, PutItemInput(b))]
         ELSE Caught(tbl)

----------------------------------------------------------------------------
\* The hook.

\* The event CodeDeploy invokes the hook with: every run belongs to a
\* deployment of its own and gets that deployment's identifiers.
EventOf(r) ==
    [DeploymentId |-> "d-" \o ToString(r),
     LifecycleEventHookExecutionId |-> "hook-" \o ToString(r)]

NoEvent == [none |-> TRUE]

\* no response yet
NoResponse == [none |-> TRUE]

\* no timer set
NoTimer == [none |-> TRUE]

\* The error a rejected call of each client carries.
ErrorOf(op) ==
    CASE op = "invoke" -> "ServiceException"
      [] op = "getItem" -> "ProvisionedThroughputExceededException"
      [] op = "deleteItem" -> "AccessDeniedException"
      [] op = "putLifecycleEventHookExecutionStatus" -> "ThrottlingException"


\* function wait(ms?): the delay handed to setTimeout
wait(ms) == IF ms = undefined \/ ms = Num(0) THEN 1500 ELSE ms.v

Active(r) == pc[r] \notin {"idle", "done", "thrown"}

\* the hook issues a call: it is in flight until it settles
Issue(cs, op) == Append(cs, [op |-> op, result |-> "pending"])

\* wait() is called: setTimeout(resolve, t) with the delay wait computes
IssueWait(cs) ==
    Append(cs, [op |-> "wait", result |-> "pending", ms |-> wait(undefined)])

\* a call in flight settles
Settle(cs, op, res) ==
    [i \in 1..Len(cs) |->
        IF cs[i].op = op /\ cs[i].result = "pending"
        THEN [cs[i] EXCEPT !.result = res] ELSE cs[i]]

\* a call in flight rejects
Reject(cs, op) == Settle(cs, op, ErrorOf(op))

InFlight(r) == {i \in 1..Len(calls[r]) : calls[r][i].result = "pending"}

\* the report issued twice: once in the catch block and once after it
Report_Twice(r, cs, st) ==
    /\ status' = [status EXCEPT ![r] = st]
    /\ calls' = [calls EXCEPT ![r] =
            Issue(Issue(cs, "putLifecycleEventHookExecutionStatus"),
                  "putLifecycleEventHookExecutionStatus")]
    /\ reports' = [reports EXCEPT ![r] = @ \o
            << [deploymentId |-> event[r].DeploymentId,
                lifecycleEventHookExecutionId |-> event[r].LifecycleEventHookExecutionId,
                status |-> st],
               [deploymentId |-> event[r].DeploymentId,
                lifecycleEventHookExecutionId |-> event[r].LifecycleEventHookExecutionId,
                status |-> st] >>]
    /\ pc' = [pc EXCEPT ![r] = "reporting"]

\* cdParams built with the two identifiers of the event interchanged
Report_Swapped(r, cs, st) ==
    /\ status' = [status EXCEPT ![r] = st]
    /\ calls' = [calls EXCEPT ![r] = Issue(cs, "putLifecycleEventHookExecutionStatus")]
    /\ reports' = [reports EXCEPT ![r] = Append(@,
            [deploymentId |-> event[r].LifecycleEventHookExecutionId,
             lifecycleEventHookExecutionId |-> event[r].DeploymentId,
             status |-> st])]
    /\ pc' = [pc EXCEPT ![r] = "reporting"]

\* lines 119-128: build cdParams with `st` and call CodeDeploy
Report(r, cs, st) ==
    /\ status' = [status EXCEPT ![r] = st]
    /\ calls' = [calls EXCEPT ![r] = Issue(cs, "putLifecycleEventHookExecutionStatus")]
    /\ reports' = [reports EXCEPT ![r] = Append(@,
            [deploymentId |-> event[r].DeploymentId,
             lifecycleEventHookExecutionId |-> event[r].LifecycleEventHookExecutionId,
             status |-> st])]
    /\ pc' = [pc EXCEPT ![r] = "reporting"]

\* handler is invoked: lines 49-81, up to the await of lambdaClient.invoke
HandlerStart(r) ==
    /\ pc[r] = "idle"
    /\ event' = [event EXCEPT ![r] = EventOf(r)]
    /\ status' = [status EXCEPT ![r] = "Succeeded"]
    /\ lambda' = [lambda EXCEPT ![r] =
            [state |-> "pending", statusCode |-> 0,
             Payload |-> JSONstringify([body |-> JSONstringify(book)])]]
    /\ calls' = [calls EXCEPT ![r] = Issue(@, "invoke")]
    /\ pc' = [pc EXCEPT ![r] = "invoke"]
    /\ concurrent' = (concurrent \/ \E o \in Runs \ {r} : Active(o))
    /\ UNCHANGED <<store, Item, reports, outcome, others>>

\* The invoked function (the create handler) runs on the request of run r.
TargetRun(r) ==
    /\ lambda[r].state = "pending"
    /\ \E putOk \in BOOLEAN :
        LET res == createHandler(store, JSONparse(lambda[r].Payload), putOk) IN
        /\ store' = res.tbl
        /\ lambda' = [lambda EXCEPT ![r].state = "returned",
                                    ![r].statusCode = res.statusCode]
    /\ UNCHANGED <<pc, status, event, calls, Item, reports, outcome, concurrent, others>>

\* A real client posts a book: the create handler behind POST /books.
ClientCreate ==
    /\ \E putOk \in BOOLEAN :
        store' = createHandler(store, [body |-> JSONstringify(clientBook)], putOk).tbl
    /\ UNCHANGED <<pc, status, event, lambda, calls, Item, reports, outcome, concurrent, others>>

\* wait() called without await: the timer and getItem are issued together
InvokeResolved_NoAwait(r) ==
    /\ pc[r] = "invoke"
    /\ lambda[r].state = "returned"
    /\ calls' = [calls EXCEPT ![r] =
            Issue(IssueWait(Settle(@, "invoke", "ok")), "getItem")]
    /\ pc' = [pc EXCEPT ![r] = "getItem"]
    /\ UNCHANGED <<store, status, event, lambda, Item, reports, outcome, concurrent, others>>

\* lambdaClient.invoke resolves: lines 81-96, up to the await of wait()
InvokeResolved(r) ==
    /\ pc[r] = "invoke"
    /\ lambda[r].state = "returned"
    /\ calls' = [calls EXCEPT ![r] = IssueWait(Settle(@, "invoke", "ok"))]
    /\ pc' = [pc EXCEPT ![r] = "wait"]
    /\ UNCHANGED <<store, status, event, lambda, Item, reports, outcome, concurrent, others>>

\* the rejection of invoke swallowed: the run goes on to the wait
InvokeRejected_GoesOn(r) ==
    /\ pc[r] = "invoke"
    /\ lambda' = [lambda EXCEPT ![r].state =
            IF @ = "pending" THEN "lost" ELSE @]
    /\ calls' = [calls EXCEPT ![r] = IssueWait(Reject(@, "invoke"))]
    /\ pc' = [pc EXCEPT ![r] = "wait"]
    /\ UNCHANGED <<store, status, event, Item, reports, outcome, concurrent, others>>

\* lambdaClient.invoke rejects: catch (lines 112-117), then report
InvokeRejected(r) ==
    /\ pc[r] = "invoke"
    /\ lambda' = [lambda EXCEPT ![r].state =
            IF @ = "pending" THEN "lost" ELSE @]
    /\ Report(r, Reject(calls[r], "invoke"), "Failed")
    /\ UNCHANGED <<store, event, Item, outcome, concurrent, others>>

\* the timer of wait() fires: lines 96-98, up to the await of getItem
WaitElapsed(r) ==
    /\ pc[r] = "wait"
    /\ calls' = [calls EXCEPT ![r] = Issue(Settle(@, "wait", "ok"), "getItem")]
    /\ pc' = [pc EXCEPT ![r] = "getItem"]
    /\ UNCHANGED <<store, status, event, lambda, Item, reports, outcome, concurrent, others>>

\* getItem resolves and the `if (!Item) throw` is missing
GetItemResolved_NoCheck(r) ==
    /\ pc[r] = "getItem"
    /\ Item' = [Item EXCEPT ![r] = getItem(store, book.isbn.v)]
    /\ calls' = [calls EXCEPT ![r] = Issue(Settle(@, "getItem", "ok"), "deleteItem")]
    /\ pc' = [pc EXCEPT ![r] = "deleteItem"]
    /\ UNCHANGED <<store, status, event, lambda, reports, outcome, concurrent, others>>

\* getItem resolves: lines 98-109 when the Item is there (up to the await of
\* deleteItem), lines 98-102 and 112-128 when it is not
GetItemResolved(r) ==
    /\ pc[r] = "getItem"
    /\ LET it == getItem(store, book.isbn.v)
           cs == Settle(calls[r], "getItem", "ok") IN
        /\ Item' = [Item EXCEPT ![r] = it]
        /\ IF it = NoItem
           THEN Report(r, cs, "Failed")
           ELSE /\ calls' = [calls EXCEPT ![r] = Issue(cs, "deleteItem")]
                /\ pc' = [pc EXCEPT ![r] = "deleteItem"]
                /\ UNCHANGED <<status, reports>>
    /\ UNCHANGED <<store, event, lambda, outcome, concurrent, others>>

\* getItem rejects outside the try block: handler's promise rejects with it
GetItemRejected_Thrown(r) ==
    /\ pc[r] = "getItem"
    /\ calls' = [calls EXCEPT ![r] = Reject(@, "getItem")]
    /\ outcome' = [outcome EXCEPT ![r] =
            [kind |-> "thrown", error |-> ErrorOf("getItem")]]
    /\ pc' = [pc EXCEPT ![r] = "thrown"]
    /\ UNCHANGED <<store, status, event, lambda, Item, reports, concurrent, others>>

\* getItem rejects: catch, then report
GetItemRejected(r) ==
    /\ pc[r] = "getItem"
    /\ Report(r, Reject(calls[r], "getItem"), "Failed")
    /\ UNCHANGED <<store, event, lambda, Item, outcome, concurrent, others>>

\* deleteItem resolves: lines 109-110 and 119-128
DeleteItemResolved(r) ==
    /\ pc[r] = "deleteItem"
    /\ store' = deleteItem(store, book.isbn.v)
    /\ Report(r, Settle(calls[r], "deleteItem", "ok"), status[r])
    /\ UNCHANGED <<event, lambda, Item, outcome, concurrent, others>>

\* deleteItem rejects and the error is swallowed: status stays as it is
DeleteItemRejected_BestEffort(r) ==
    /\ pc[r] = "deleteItem"
    /\ Report(r, Reject(calls[r], "deleteItem"), status[r])
    /\ UNCHANGED <<store, event, lambda, Item, outcome, concurrent, others>>

\* deleteItem rejects: catch, then report
DeleteItemRejected(r) ==
    /\ pc[r] = "deleteItem"
    /\ Report(r, Reject(calls[r], "deleteItem"), "Failed")
    /\ UNCHANGED <<store, event, lambda, Item, outcome, concurrent, others>>

\* putLifecycleEventHookExecutionStatus resolves: handler returns its output
ReportResolved(r) ==
    /\ pc[r] = "reporting"
    /\ calls' = [calls EXCEPT ![r] =
            Settle(@, "putLifecycleEventHookExecutionStatus", "ok")]
    /\ outcome' = [outcome EXCEPT ![r] = [kind |-> "returned"]]
    /\ pc' = [pc EXCEPT ![r] = "done"]
    /\ UNCHANGED <<store, status, event, lambda, Item, reports, concurrent, others>>

\* putLifecycleEventHookExecutionStatus rejects: handler's promise rejects with it
ReportRejected(r) ==
    /\ pc[r] = "reporting"
    /\ outcome' = [outcome EXCEPT ![r] =
            [kind |-> "thrown",
             error |-> ErrorOf("putLifecycleEventHookExecutionStatus")]]
    /\ calls' = [calls EXCEPT ![r] =
            Reject(@, "putLifecycleEventHookExecutionStatus")]
    /\ pc' = [pc EXCEPT ![r] = "thrown"]
    /\ UNCHANGED <<store, status, event, lambda, Item, reports, concurrent, others>>

----------------------------------------------------------------------------

Init ==
    /\ store = [k \in Isbns |-> NoItem]
    /\ pc = [r \in Runs |-> "idle"]
    /\ status = [r \in Runs |-> "unset"]
    /\ event = [r \in Runs |-> NoEvent]
    /\ lambda = [r \in Runs |-> [state |-> "none", Payload |-> "", statusCode |-> 0]]
    /\ calls = [r \in Runs |-> <<>>]
    /\ Item = [r \in Runs |-> undefined]
    /\ reports = [r \in Runs |-> <<>>]
    /\ outcome = [r \in Runs |-> [kind |-> "pending"]]
    /\ concurrent = FALSE
    /\ traffic = [r \in Runs |-> "old"]
    /\ response = NoResponse
    /\ listing = NoResponse
    /\ waitArg = undefined
    /\ timer = NoTimer

\* a step of a hook run, or of the function it invoked
GateStep ==
    \/ \E r \in Runs : HandlerStart(r)
    \/ \E r \in Runs : TargetRun(r)
    \/ \E r \in Runs : InvokeResolved(r)
    \/ \E r \in Runs : InvokeRejected(r)
    \/ \E r \in Runs : WaitElapsed(r)
    \/ \E r \in Runs : GetItemResolved(r)
    \/ \E r \in Runs : GetItemRejected(r)
    \/ \E r \in Runs : DeleteItemResolved(r)
    \/ \E r \in Runs : DeleteItemRejected(r)
    \/ \E r \in Runs : ReportResolved(r)
    \/ \E r \in Runs : ReportRejected(r)

Next ==
    \/ GateStep
    \/ ClientCreate

Spec == Init /\ [][Next]_vars

----------------------------------------------------------------------------
\* What a run has done, read off its calls and reports.

ReportOp == "putLifecycleEventHookExecutionStatus"

Issued(r, op) == \E i \in 1..Len(calls[r]) : calls[r][i].op = op

Resolved(r, op) ==
    \E i \in 1..Len(calls[r]) : calls[r][i].op = op /\ calls[r][i].result = "ok"

Rejected(r, op) ==
    \E i \in 1..Len(calls[r]) :
        calls[r][i].op = op /\ calls[r][i].result \notin {"pending", "ok"}

Reported(r) == reports[r] # <<>>

ReportedStatus(r) == reports[r][Len(reports[r])].status

Finished(r) == pc[r] \in {"done", "thrown"}

FoundItem(r) == Resolved(r, "getItem") /\ Item[r] # NoItem

Rank(op) ==
    CASE op = "invoke" -> 1
      [] op = "wait" -> 2
      [] op = "getItem" -> 3
      [] op = "deleteItem" -> 4
      [] op = ReportOp -> 5

\* no call of any run was rejected and every invoked function answered 201
NoFaults ==
    \A r \in Runs :
        /\ \A i \in 1..Len(calls[r]) : calls[r][i].result \in {"pending", "ok"}
        /\ lambda[r].state = "returned" => lambda[r].statusCode = 201

----------------------------------------------------------------------------
\* C1: the status a run reports is "Succeeded" if and only if its invoke
\* resolved, its getItem after the wait resolved with an Item, and its
\* deleteItem resolved.
C1_SucceededIffAllStepsOk ==
    \A r \in Runs :
        Reported(r) =>
            (ReportedStatus(r) = "Succeeded"
                <=> /\ Resolved(r, "invoke")
                    /\ FoundItem(r)
                    /\ Resolved(r, "deleteItem"))

C1_Witness ==
    \E r \in Runs :
        /\ Finished(r)
        /\ ReportedStatus(r) = "Succeeded"
        /\ Resolved(r, "deleteItem")
        /\ Item[r] = PutItemInput(book)

\* C2: when invoke rejects, the run reports "Failed" and issues neither
\* getItem nor deleteItem.
C2_InvokeRejectedFails ==
    \A r \in Runs :
        Rejected(r, "invoke") =>
            /\ Reported(r) /\ ReportedStatus(r) = "Failed"
            /\ ~Issued(r, "getItem")
            /\ ~Issued(r, "deleteItem")

C2_Witness == \E r \in Runs : Rejected(r, "invoke") /\ Finished(r)

\* C3: when invoke resolves with the create handler's statusCode 500, the run
\* reports "Failed" and issues no wait, no getItem and no deleteItem.
C3_Non201FailsAtOnce ==
    \A r \in Runs :
        (Resolved(r, "invoke") /\ lambda[r].statusCode = 500) =>
            /\ ~Issued(r, "wait")
            /\ ~Issued(r, "getItem")
            /\ ~Issued(r, "deleteItem")
            /\ Reported(r) /\ ReportedStatus(r) = "Failed"

\* C4: when getItem resolves without an Item, the run reports "Failed" and
\* issues no deleteItem.
C4_MissingItemFails ==
    \A r \in Runs :
        (Resolved(r, "getItem") /\ Item[r] = NoItem) =>
            /\ Reported(r) /\ ReportedStatus(r) = "Failed"
            /\ ~Issued(r, "deleteItem")

C4_Witness ==
    \E r \in Runs : Resolved(r, "getItem") /\ Item[r] = NoItem /\ Finished(r)

\* C5: the calls of a run are issued in the order invoke, wait, getItem,
\* deleteItem, report, each at most once and each only when its predecessor
\* has resolved (getItem after invoke resolved and the wait elapsed, deleteItem
\* after getItem resolved with an Item); at most one of them is in flight.
C5_StrictlySequential ==
    \A r \in Runs :
        /\ Cardinality(InFlight(r)) <= 1
        /\ \A i, j \in 1..Len(calls[r]) :
                i < j => /\ Rank(calls[r][i].op) < Rank(calls[r][j].op)
                         /\ calls[r][i].result # "pending"
        /\ Issued(r, "wait") => Resolved(r, "invoke")
        /\ Issued(r, "getItem") => Resolved(r, "invoke") /\ Resolved(r, "wait")
        /\ Issued(r, "deleteItem") => Resolved(r, "wait") /\ FoundItem(r)

C5_Witness ==
    \E r \in Runs :
        /\ Finished(r)
        /\ [i \in 1..Len(calls[r]) |-> calls[r][i].op]
                = <<"invoke", "wait", "getItem", "deleteItem", ReportOp>>

\* C6: a run sends at most one report, it has sent exactly one once it is at
\* or past the report call, no other call is in flight or issued after the
\* report, and the status sent is "Succeeded" or "Failed".
C6_OneReport ==
    \A r \in Runs :
        /\ Len(reports[r]) <= 1
        /\ Cardinality({i \in 1..Len(calls[r]) : calls[r][i].op = ReportOp})
                = Len(reports[r])
        /\ (pc[r] \in {"reporting", "done", "thrown"}) <=> (Len(reports[r]) = 1)
        /\ Reported(r) =>
                /\ calls[r][Len(calls[r])].op = ReportOp
                /\ \A i \in 1..Len(calls[r]) - 1 : calls[r][i].result # "pending"
        /\ \A i \in 1..Len(reports[r]) :
                reports[r][i].status \in {"Succeeded", "Failed"}

C6_Witness ==
    \E r, q \in Runs :
        /\ pc[r] = "done" /\ Len(reports[r]) = 1 /\ ReportedStatus(r) = "Failed"
        /\ pc[q] = "done" /\ Len(reports[q]) = 1 /\ ReportedStatus(q) = "Succeeded"

\* C7: handler's promise rejects if and only if the report call rejected, and
\* then with the report call's error; a rejected invoke or getItem and a
\* missing Item end in a "Failed" report instead.
C7_OnlyReportErrorPropagates ==
    \A r \in Runs :
        /\ outcome[r].kind = "thrown" <=> Rejected(r, ReportOp)
        /\ outcome[r].kind = "thrown" =>
                \E i \in 1..Len(calls[r]) :
                    calls[r][i].op = ReportOp /\ calls[r][i].result = outcome[r].error
        /\ (\/ Rejected(r, "invoke")
            \/ Rejected(r, "getItem")
            \/ (Resolved(r, "getItem") /\ Item[r] = NoItem)) =>
                Reported(r) /\ ReportedStatus(r) = "Failed"

C7_Witness ==
    \E r, q \in Runs :
        /\ Rejected(r, "getItem") /\ outcome[r].kind = "returned"
        /\ Rejected(q, "invoke") /\ outcome[q].kind = "thrown"

\* C8 as stated: a run whose deleteItem rejected reports "Succeeded".
C8_DeleteFailureReportsSucceeded ==
    \A r \in Runs :
        (Rejected(r, "deleteItem") /\ Reported(r)) => ReportedStatus(r) = "Succeeded"

\* C8 amended: a run whose deleteItem rejected (after invoke resolved and
\* getItem found the Item) reports "Failed".
C8_DeleteFailureReportsFailed ==
    \A r \in Runs :
        Rejected(r, "deleteItem") =>
            /\ Resolved(r, "invoke") /\ FoundItem(r)
            /\ Reported(r) /\ ReportedStatus(r) = "Failed"

C8_Witness == \E r \in Runs : Rejected(r, "deleteItem") /\ pc[r] = "done"

\* C9: after two runs, one after the other, in which no deleteItem rejected,
\* the table holds no item under the probe isbn.
C9_TwoRunsLeaveNoProbe ==
    (/\ ~concurrent
     /\ Cardinality({r \in Runs : Finished(r)}) >= 2
     /\ \A r \in Runs : ~Active(r) /\ ~Rejected(r, "deleteItem"))
        => store[ProbeIsbn] = NoItem

\* C10 as stated: without faults every finished run has reported "Succeeded",
\* however the runs interleave.
C10_ConcurrentRunsSucceed ==
    \A r \in Runs : (NoFaults /\ Finished(r)) => ReportedStatus(r) = "Succeeded"

\* C10 amended: without faults every finished run has reported "Succeeded"
\* when the runs are serialized (no two runs active at the same time).
C10_SerializedRunsSucceed ==
    \A r \in Runs :
        (NoFaults /\ ~concurrent /\ Finished(r)) => ReportedStatus(r) = "Succeeded"

C10_Witness ==
    /\ NoFaults /\ ~concurrent
    /\ Cardinality({r \in Runs : pc[r] = "done" /\ ReportedStatus(r) = "Succeeded"}) >= 2

----------------------------------------------------------------------------
\* C11: every report of a run carries the DeploymentId and the
\* LifecycleEventHookExecutionId of the event the run was invoked with, and
\* the event of a started run is the one it was invoked with at every step.
C11_ReportCarriesEventIds ==
    \A r \in Runs :
        /\ pc[r] # "idle" => event[r] = EventOf(r)
        /\ \A i \in 1..Len(reports[r]) :
                /\ reports[r][i].deploymentId = EventOf(r).DeploymentId
                /\ reports[r][i].lifecycleEventHookExecutionId
                        = EventOf(r).LifecycleEventHookExecutionId

C11_Witness ==
    \E r, q \in Runs :
        /\ r # q
        /\ Finished(r) /\ ReportedStatus(r) = "Succeeded"
        /\ Finished(q) /\ ReportedStatus(q) = "Failed"
        /\ reports[r][1].deploymentId # reports[q][1].deploymentId

----------------------------------------------------------------------------
\* CodeDeploy, the caller of the hook: it holds the traffic on the old version
\* until the hook's status arrives, shifts it on "Succeeded" and aborts the
\* deployment on "Failed" or when no status arrives.

\* traffic shifted with no regard to the status received
ShiftTraffic_Unguarded(r) ==
    /\ traffic[r] = "old"
    /\ Reported(r)
    /\ traffic' = [traffic EXCEPT ![r] = "shifted"]
    /\ UNCHANGED <<store, gate, response, listing, waitArg, timer>>

\* step 4 of the deployment flow: the test passed, traffic is shifted
ShiftTraffic(r) ==
    /\ traffic[r] = "old"
    /\ Resolved(r, ReportOp)
    /\ ReportedStatus(r) = "Succeeded"
    /\ traffic' = [traffic EXCEPT ![r] = "shifted"]
    /\ UNCHANGED <<store, gate, response, listing, waitArg, timer>>

\* step 5 of the deployment flow: the test failed (or its status never
\* arrived), the deployment is aborted and traffic stays on the old version
AbortDeployment(r) ==
    /\ traffic[r] = "old"
    /\ \/ Resolved(r, ReportOp) /\ ReportedStatus(r) = "Failed"
       \/ Rejected(r, ReportOp)
    /\ traffic' = [traffic EXCEPT ![r] = "aborted"]
    /\ UNCHANGED <<store, gate, response, listing, waitArg, timer>>

NextCD ==
    \/ GateStep
    \/ \E r \in Runs : ShiftTraffic(r)
    \/ \E r \in Runs : AbortDeployment(r)

SpecCD == Init /\ [][NextCD]_vars

\* C12: traffic is shifted to the new version only when the hook's report
\* with status "Succeeded" has arrived, and never for a run that reported
\* "Failed".
C12_FailedBlocksTrafficShift ==
    \A r \in Runs :
        /\ traffic[r] = "shifted" =>
                /\ Resolved(r, ReportOp)
                /\ \A i \in 1..Len(reports[r]) : reports[r][i].status = "Succeeded"
        /\ (Reported(r) /\ ReportedStatus(r) = "Failed") => traffic[r] # "shifted"

C12_Witness ==
    \E r, q \in Runs :
        /\ traffic[r] = "shifted" /\ ReportedStatus(r) = "Succeeded"
        /\ traffic[q] = "aborted" /\ ReportedStatus(q) = "Failed"

----------------------------------------------------------------------------
\* The two API handlers, called by clients.

\* POST /books: the create handler answers the request `req`
PostBook(req, putOk) ==
    LET res == createHandler(store, req, putOk) IN
    /\ store' = res.tbl
    /\ response' = [request |-> req, putOk |-> putOk, threw |-> res.threw,
                    statusCode |-> res.statusCode, before |-> store]
    /\ UNCHANGED <<gate, traffic, listing, waitArg, timer>>

\* the numbers the books of the model carry
Numbers == {book.rating.v, book.pages.v, 1111, clientBook.year.v,
            clientBook.rating.v, clientBook.pages.v, clientBook2.rating.v}

\* parseInt(s, 10) of the decimal text of a number
parseInt(s) == CHOOSE n \in Numbers : ToString(n) = s

\* the order in which a scan returns the items
IsbnSeq == <<ProbeIsbn, OtherIsbn>>

\* DynamoDB scan of the whole table: its ScanOutput, when the call resolves.
\* `out` = "noItems" is an output without the Items member.
scan(tbl, out) ==
    IF out = "noItems" THEN [Count |-> 0]
    ELSE [Count |-> Cardinality({k \in Isbns : tbl[k] # NoItem}),
          Items |-> SelectSeq([i \in 1..Len(IsbnSeq) |-> tbl[IsbnSeq[i]]],
                              LAMBDA it : it # NoItem)]

\* the DTO the get-all handler makes of an item
bookDto(item) ==
    [isbn |-> Str(item.isbn.S), title |-> Str(item.title.S),
     year |-> Num(parseInt(item.year.N)), author |-> Str(item.author.S),
     publisher |-> Str(item.publisher.S), rating |-> Num(parseInt(item.rating.N)),
     pages |-> Num(parseInt(item.pages.N))]

\* the get-all handler without the `|| []` default
getAllHandler_NoDefault(tbl, out) ==
    IF out = "error" THEN [statusCode |-> 500, body |-> Str("")]
    ELSE LET result == scan(tbl, out) IN
         IF "Items" \in DOMAIN result
         THEN [statusCode |-> 200,
               body |-> JSONstringify([i \in 1..Len(result.Items) |->
                                            bookDto(result.Items[i])])]
         ELSE [statusCode |-> 200, body |-> undefined]

\* The get-all handler: its response when the scan resolves with the items
\* ("ok"), resolves without Items ("noItems") or rejects ("error").
getAllHandler(tbl, out) ==
    IF out = "error" THEN [statusCode |-> 500, body |-> Str("")]
    ELSE LET result == scan(tbl, out)
             bookDtos == IF "Items" \in DOMAIN result
                         THEN [i \in 1..Len(result.Items) |-> bookDto(result.Items[i])]
                         ELSE <<>>
         IN [statusCode |-> 200, body |-> JSONstringify(bookDtos)]

\* GET /books: the get-all handler answers
GetAllBooks(out) ==
    /\ out = "noItems" => \A k \in Isbns : store[k] = NoItem
    /\ LET res == getAllHandler(store, out) IN
        listing' = [scan |-> out, statusCode |-> res.statusCode,
                    body |-> res.body, tbl |-> store]
    /\ UNCHANGED <<store, gate, traffic, response, waitArg, timer>>

NextApi ==
    \/ \E req \in ClientRequests, putOk \in BOOLEAN : PostBook(req, putOk)
    \/ \E out \in {"ok", "noItems", "error"} : GetAllBooks(out)

SpecApi == Init /\ [][NextApi]_vars

\* the requests a create can be made of: a JSON body of a book with every field
GoodRequest(req) ==
    /\ IsJSON(req.body)
    /\ JSONparse(req.body) # null
    /\ \A f \in {"isbn", "title", "year", "author", "publisher", "rating", "pages"} :
            JSONparse(req.body)[f] # undefined

\* C13: the create handler never throws; it answers 201 exactly when the
\* request is a book with every field and putItem succeeded, and 500 otherwise
\* (unparsable body, missing field, rejected putItem); after a 201 the table
\* holds under the book's isbn the item made of the values just posted,
\* whatever it held before, and nothing else changed; after a 500 the table is
\* as it was.
C13_CreateUpserts ==
    response # NoResponse =>
        /\ ~response.threw
        /\ response.statusCode \in {201, 500}
        /\ response.statusCode = 201 <=> (GoodRequest(response.request) /\ response.putOk)
        /\ response.statusCode = 500 => store = response.before
        /\ response.statusCode = 201 =>
            LET b == JSONparse(response.request.body) IN
            /\ store[b.isbn.v].isbn.S = b.isbn.v
            /\ store[b.isbn.v].title.S = b.title.v
            /\ store[b.isbn.v].year.N = toString(b.year)
            /\ store[b.isbn.v].author.S = b.author.v
            /\ store[b.isbn.v].publisher.S = b.publisher.v
            /\ store[b.isbn.v].rating.N = toString(b.rating)
            /\ store[b.isbn.v].pages.N = toString(b.pages)
            /\ \A k \in Isbns \ {b.isbn.v} : store[k] = response.before[k]

C13_Witness ==
    /\ response # NoResponse
    /\ response.statusCode = 201
    /\ response.before[OtherIsbn] # NoItem
    /\ store[OtherIsbn] # response.before[OtherIsbn]

\* the records of a table
Records(tbl) == {k \in Isbns : tbl[k] # NoItem}

----------------------------------------------------------------------------
\* C15: with the runs one after the other, a run that reports "Succeeded" had
\* its own invocation of the create handler answer 201, that is, the item its
\* getItem found was put by the function this run invoked.
C15_SucceededMeansOwnWrite ==
    \A r \in Runs :
        (~concurrent /\ Reported(r) /\ ReportedStatus(r) = "Succeeded") =>
            /\ lambda[r].state = "returned"
            /\ lambda[r].statusCode = 201

\* the calls of run r that failed: a rejected invoke, getItem or deleteItem,
\* or a getItem that resolved without an Item
FailedCalls(r) ==
    {i \in 1..Len(calls[r]) :
        \/ /\ calls[r][i].op \in {"invoke", "getItem", "deleteItem"}
           /\ calls[r][i].result \notin {"pending", "ok"}
        \/ /\ calls[r][i].op = "getItem"
           /\ calls[r][i].result = "ok"
           /\ Item[r] = NoItem}

\* C16: once a call of a run has failed, status is "Failed", the run has sent
\* its one report with "Failed", and the report is the only call issued after
\* the failed one.
C16_ErrorShortCircuits ==
    \A r \in Runs :
        \A i \in FailedCalls(r) :
            /\ status[r] = "Failed"
            /\ Len(calls[r]) = i + 1
            /\ calls[r][i + 1].op = ReportOp
            /\ Len(reports[r]) = 1
            /\ reports[r][1].status = "Failed"

C16_Witness ==
    \E r, q \in Runs :
        /\ Rejected(r, "deleteItem") /\ Finished(r)
        /\ Resolved(q, "getItem") /\ Item[q] = NoItem /\ Finished(q)

\* C17: with the runs one after the other, while a run is reporting
\* "Succeeded" its deleteItem has resolved and the table holds no item under
\* the probe isbn.
C17_NoProbeAtSucceededReport ==
    \A r \in Runs :
        (~concurrent /\ pc[r] = "reporting" /\ ReportedStatus(r) = "Succeeded") =>
            /\ Resolved(r, "deleteItem")
            /\ store[ProbeIsbn] = NoItem

C17_Witness ==
    \E r, q \in Runs :
        /\ ~concurrent
        /\ Finished(q) /\ Rejected(q, "getItem") /\ lambda[q].statusCode = 201
        /\ pc[r] = "reporting" /\ ReportedStatus(r) = "Succeeded"

----------------------------------------------------------------------------
\* Every awaited call of a started run settles and every timer it set fires:
\* the continuation of the run after an await is eventually taken.
Fairness ==
    \A r \in Runs :
        /\ WF_vars(InvokeResolved(r) \/ InvokeRejected(r))
        /\ WF_vars(WaitElapsed(r))
        /\ WF_vars(GetItemResolved(r) \/ GetItemRejected(r))
        /\ WF_vars(DeleteItemResolved(r) \/ DeleteItemRejected(r))

\* the hook runs alone, under that fairness
FairSpec == Init /\ [][GateStep]_vars /\ Fairness

\* C18: every run that has started eventually issues its status report.
C18_EveryRunReports ==
    \A r \in Runs : (pc[r] # "idle") ~> Reported(r)

C18_Witness ==
    \E r, q \in Runs :
        /\ Reported(r) /\ Rejected(r, "invoke") /\ lambda[r].state = "lost"
        /\ Reported(q) /\ Resolved(q, "deleteItem")

----------------------------------------------------------------------------
\* C19: the book a run sends to the create handler and the Item its getItem
\* finds carry the probe isbn; a step of a run changes the table under the
\* probe isbn only; it puts an item there only through the function it
\* invoked, and the hook's own steps at most delete it.
C19_OnlyProbeKeyTouched ==
    /\ [](\A r \in Runs :
            /\ lambda[r].state # "none" =>
                    JSONparse(JSONparse(lambda[r].Payload).body).isbn = Str(ProbeIsbn)
            /\ FoundItem(r) => Item[r].isbn.S = ProbeIsbn)
    /\ [][gate' # gate =>
            /\ \A k \in Isbns \ {ProbeIsbn} : store'[k] = store[k]
            /\ store'[ProbeIsbn] \notin {store[ProbeIsbn], NoItem} => lambda' # lambda
            /\ (store'[ProbeIsbn] # store[ProbeIsbn] /\ lambda' = lambda) =>
                    \E r \in Runs : pc[r] = "deleteItem" /\ pc'[r] = "reporting"]_vars

C19_Witness ==
    \E r \in Runs :
        /\ Finished(r)
        /\ Resolved(r, "deleteItem")
        /\ store[OtherIsbn] = PutItemInput(clientBook)

----------------------------------------------------------------------------
\* wait on its own: a caller calls wait with or without a duration, the
\* timer it sets runs and fires.

\* the largest duration a caller supplies
MaxWaitMs == 3

\* wait() and wait(ms) for the durations supplied
WaitArgs == {undefined} \cup {Num(n) : n \in 0..MaxWaitMs}

\* wait is called: setTimeout(resolve, t)
CallWait ==
    /\ timer = NoTimer
    /\ timer' = [delay |-> wait(waitArg), elapsed |-> 0, fired |-> FALSE]
    /\ UNCHANGED <<store, gate, traffic, response, listing, waitArg>>

\* a millisecond passes
Tick ==
    /\ timer # NoTimer
    /\ timer.elapsed < timer.delay
    /\ timer' = [timer EXCEPT !.elapsed = @ + 1]
    /\ UNCHANGED <<store, gate, traffic, response, listing, waitArg>>

\* the timer fires: resolve is called and the promise of wait resolves
TimerFires ==
    /\ timer # NoTimer
    /\ ~timer.fired
    /\ timer.elapsed = timer.delay
    /\ timer' = [timer EXCEPT !.fired = TRUE]
    /\ UNCHANGED <<store, gate, traffic, response, listing, waitArg>>

InitWait ==
    /\ store = [k \in Isbns |-> NoItem]
    /\ pc = [r \in Runs |-> "idle"]
    /\ status = [r \in Runs |-> "unset"]
    /\ event = [r \in Runs |-> NoEvent]
    /\ lambda = [r \in Runs |-> [state |-> "none", Payload |-> "", statusCode |-> 0]]
    /\ calls = [r \in Runs |-> <<>>]
    /\ Item = [r \in Runs |-> undefined]
    /\ reports = [r \in Runs |-> <<>>]
    /\ outcome = [r \in Runs |-> [kind |-> "pending"]]
    /\ concurrent = FALSE
    /\ traffic = [r \in Runs |-> "old"]
    /\ response = NoResponse
    /\ listing = NoResponse
    /\ waitArg \in WaitArgs
    /\ timer = NoTimer

NextWait == CallWait \/ Tick \/ TimerFires

SpecWait == InitWait /\ [][NextWait]_vars

====
